---- MODULE Spec2Model ----
(***************************************************************************)
(* fix_ai_calls.py: a one-shot patcher. It reads src/IDE/services/          *)
(* aiService.ts, applies two regular-expression rewrites of the            *)
(* ai.models.generateContent call, five literal replacements of Type.*     *)
(* tokens, one regular-expression removal of the inline model argument,    *)
(* writes the text back to the same path and prints a message.             *)
(*                                                                         *)
(* Text is modelled character by character: a document is a sequence of    *)
(* one-character strings, and str.replace and re.sub are computed by the   *)
(* leftmost, non-overlapping scan that Python performs.                    *)
(***************************************************************************)
EXTENDS Integers, Sequences, FiniteSets, TLC

VARIABLES
    pc,       \* the statement the script executes next
    disk,     \* the target file: [exists, data]
    content,  \* the script's variable `content`
    input,    \* the target file as it was when the current run started
    out,      \* what the current run has printed on standard output
    err,      \* where the current run raised an I/O error, or "none"
    written   \* the documents saved by the runs completed so far

vars == << pc, disk, content, input, out, err, written >>

----------------------------------------------------------------------------
(* Bounds of the model. *)

\* An input document is the concatenation of at most MaxFrags fragments.
MaxFrags == 3

\* A document of Type tokens is the concatenation of at most MaxEnumFrags
\* fragments.
MaxEnumFrags == 2

\* The script is run at most MaxRuns times on the same file.
MaxRuns == 2

----------------------------------------------------------------------------
(* The string literals of the script. *)

\* line 11: the pattern of both rewrites; every metacharacter in it is
\* escaped, so it matches exactly this text.
CallPattern ==
    << "c", "o", "n", "s", "t", " ", "r", "e", "s", "p", "o", "n", "s", "e",
       " ", "=", " ", "a", "w", "a", "i", "t", " ", "a", "i", ".", "m", "o",
       "d", "e", "l", "s", ".", "g", "e", "n", "e", "r", "a", "t", "e", "C",
       "o", "n", "t", "e", "n", "t", "(" >>

\* line 12: the replacement of the first rewrite (8 spaces after the newline).
PrimaryRepl ==
    << "c", "o", "n", "s", "t", " ", "m", "o", "d", "e", "l", " ", "=", " ",
       "a", "i", ".", "g", "e", "t", "G", "e", "n", "e", "r", "a", "t", "i",
       "v", "e", "M", "o", "d", "e", "l", "(", "{", " ", "m", "o", "d", "e",
       "l", ":", " ", "\"", "g", "e", "m", "i", "n", "i", "-", "2", ".", "0",
       "-", "f", "l", "a", "s", "h", "-", "e", "x", "p", "\"", " ", "}", ")",
       ";", "\n", " ", " ", " ", " ", " ", " ", " ", " ", "c", "o", "n", "s",
       "t", " ", "r", "e", "s", "p", "o", "n", "s", "e", " ", "=", " ", "a",
       "w", "a", "i", "t", " ", "m", "o", "d", "e", "l", ".", "g", "e", "n",
       "e", "r", "a", "t", "e", "C", "o", "n", "t", "e", "n", "t", "(" >>

\* line 19: the replacement of the second rewrite (5 spaces after the newline).
VariantRepl ==
    << "c", "o", "n", "s", "t", " ", "m", "o", "d", "e", "l", " ", "=", " ",
       "a", "i", ".", "g", "e", "t", "G", "e", "n", "e", "r", "a", "t", "i",
       "v", "e", "M", "o", "d", "e", "l", "(", "{", " ", "m", "o", "d", "e",
       "l", ":", " ", "\"", "g", "e", "m", "i", "n", "i", "-", "2", ".", "0",
       "-", "f", "l", "a", "s", "h", "-", "e", "x", "p", "\"", " ", "}", ")",
       ";", "\n", " ", " ", " ", " ", " ", "c", "o", "n", "s", "t", " ", "r",
       "e", "s", "p", "o", "n", "s", "e", " ", "=", " ", "a", "w", "a", "i",
       "t", " ", "m", "o", "d", "e", "l", ".", "g", "e", "n", "e", "r", "a",
       "t", "e", "C", "o", "n", "t", "e", "n", "t", "(" >>

\* lines 24-28: the five tokens and their quoted strings.
TypeObject ==
    << "T", "y", "p", "e", ".", "O", "B", "J", "E", "C", "T" >>

QuotedObject ==
    << "\"", "o", "b", "j", "e", "c", "t", "\"" >>

TypeString ==
    << "T", "y", "p", "e", ".", "S", "T", "R", "I", "N", "G" >>

QuotedString ==
    << "\"", "s", "t", "r", "i", "n", "g", "\"" >>

TypeArray ==
    << "T", "y", "p", "e", ".", "A", "R", "R", "A", "Y" >>

QuotedArray ==
    << "\"", "a", "r", "r", "a", "y", "\"" >>

TypeInteger ==
    << "T", "y", "p", "e", ".", "I", "N", "T", "E", "G", "E", "R" >>

QuotedInteger ==
    << "\"", "i", "n", "t", "e", "g", "e", "r", "\"" >>

TypeBoolean ==
    << "T", "y", "p", "e", ".", "B", "O", "O", "L", "E", "A", "N" >>

QuotedBoolean ==
    << "\"", "b", "o", "o", "l", "e", "a", "n", "\"" >>

\* The replacements in the order of lines 24-28.
TypeTable ==
    << << TypeObject, QuotedObject >>, << TypeString, QuotedString >>,
       << TypeArray, QuotedArray >>, << TypeInteger, QuotedInteger >>,
       << TypeBoolean, QuotedBoolean >> >>

\* line 31: the literal parts and character classes of the pattern
\*   model: ['"]gemini-[^'",]+['"],\s*
ModelKey ==
    << "m", "o", "d", "e", "l", ":", " " >>

GeminiPrefix ==
    << "g", "e", "m", "i", "n", "i", "-" >>

Quotes == { "'", "\"" }

NotInName == { "'", "\"", "," }

\* \s of a str pattern: the ASCII whitespace characters.
Whitespace == { " ", "\t", "\n", "\r", "\f" }

\* line 37
Message ==
    << "F", "i", "x", "e", "d", " ", "A", "I", " ", "s", "e", "r", "v", "i",
       "c", "e", " ", "c", "a", "l", "l", "s", "!" >>

----------------------------------------------------------------------------
(* Fragments the input documents are built from. *)

\* the start of a handle-construction statement, as PrimaryRepl writes it
HandleStmt ==
    << "c", "o", "n", "s", "t", " ", "m", "o", "d", "e", "l", " ", "=", " ",
       "a", "i", ".", "g", "e", "t", "G", "e", "n", "e", "r", "a", "t", "i",
       "v", "e", "M", "o", "d", "e", "l", "(" >>

\* a model argument followed by a comma, as the spec's property 6 gives it
ModelFragment ==
    << "m", "o", "d", "e", "l", ":", " ", "\"", "g", "e", "m", "i", "n", "i",
       "-", "2", ".", "0", "-", "f", "l", "a", "s", "h", "-", "e", "x", "p",
       "\"", "," >>

\* const response = await ai.models.generateContent({ 
CallOpen == CallPattern \o << "{", " " >>

\* CallHead \o CallTail = CallOpen
CallHead ==
    << "c", "o", "n", "s", "t", " ", "r", "e", "s", "p", "o", "n", "s", "e",
       " ", "=", " ", "a", "w", "a", "i", "t", " ", "a", "i", ".", "m", "o",
       "d", "e", "l" >>

CallTail ==
    << "s", ".", "g", "e", "n", "e", "r", "a", "t", "e", "C", "o", "n", "t",
       "e", "n", "t", "(", "{", " " >>

ModelArg == ModelFragment \o << " " >>

\* a model argument in single quotes with no comma after it
ModelArgLast ==
    << "m", "o", "d", "e", "l", ":", " ", "'", "g", "e", "m", "i", "n", "i",
       "-", "p", "r", "o", "'" >>

OtherArgs ==
    << "c", "o", "n", "t", "e", "n", "t", "s", ":", " ", "p", "r", "o", "m",
       "p", "t", ",", " ", "c", "o", "n", "f", "i", "g", ":", " ", "c" >>

CallClose ==
    << " ", "}", ")", ";", "\n" >>

Indent ==
    << "\n", " ", " ", " ", " " >>

\* Type.OBJECT without its last letter
TypeObjec ==
    << "T", "y", "p", "e", ".", "O", "B", "J", "E", "C" >>

Filler ==
    << ",", " ", "x", ":", " " >>

\* the call without its opening parenthesis
NoParen ==
    << "a", "w", "a", "i", "t", " ", "a", "i", ".", "m", "o", "d", "e", "l",
       "s", ".", "g", "e", "n", "e", "r", "a", "t", "e", "C", "o", "n", "t",
       "e", "n", "t", ";" >>

----------------------------------------------------------------------------
(* Text primitives. *)

\* pat occurs in s starting at position i
OccursAt(pat, s, i) ==
    /\ i >= 1
    /\ i + Len(pat) - 1 <= Len(s)
    /\ \A k \in 1..Len(pat) : s[i + k - 1] = pat[k]

\* the number of positions of s at which pat occurs (overlaps counted)
Occurrences(pat, s) == Cardinality({ i \in 1..Len(s) : OccursAt(pat, s, i) })

\* the least element of a non-empty set of integers
Least(S) == CHOOSE x \in S : \A y \in S : x <= y

\* the text of s from position i on, with every occurrence of old found from
\* i on replaced by new; the scan resumes right after a replaced occurrence
RECURSIVE ReplaceFrom(_, _, _, _)
ReplaceFrom(s, old, new, i) ==
    LET at == { j \in i..Len(s) : OccursAt(old, s, j) }
    IN  IF at = {} THEN SubSeq(s, i, Len(s))
        ELSE SubSeq(s, i, Least(at) - 1) \o new
                 \o ReplaceFrom(s, old, new, Least(at) + Len(old))

\* a bug: only the first occurrence is replaced, as str.replace(old, new, 1)
ReplaceFirstOnly(s, old, new) ==
    LET at == { i \in 1..Len(s) : OccursAt(old, s, i) }
    IN  IF at = {} THEN s
        ELSE SubSeq(s, 1, Least(at) - 1) \o new
                 \o SubSeq(s, Least(at) + Len(old), Len(s))

\* s.replace(old, new) for a non-empty old: every occurrence found by a
\* left-to-right scan that resumes after each occurrence it replaces
StrReplace(s, old, new) == ReplaceFrom(s, old, new, 1)

\* the first position >= i of s whose character is in S (Len(s) + 1 if none)
FirstIn(s, i, S) ==
    LET at == { j \in i..Len(s) : s[j] \in S }
    IN  IF at = {} THEN Len(s) + 1 ELSE Least(at)

\* the first position >= i of s whose character is not in S
FirstNotIn(s, i, S) ==
    LET at == { j \in i..Len(s) : s[j] \notin S }
    IN  IF at = {} THEN Len(s) + 1 ELSE Least(at)

----------------------------------------------------------------------------
(* The two regular expressions. A matcher gives, for a start position i,   *)
(* the position just after the match, or 0 when the pattern does not match *)
(* at i. Neither pattern can match the empty string.                       *)

\* const response = await ai\.models\.generateContent\(
CallMatchEnd(s, i) ==
    IF OccursAt(CallPattern, s, i) THEN i + Len(CallPattern) ELSE 0

RECURSIVE SubCallFrom(_, _, _)
SubCallFrom(s, repl, i) ==
    LET at == { j \in i..Len(s) : CallMatchEnd(s, j) > 0 }
    IN  IF at = {} THEN SubSeq(s, i, Len(s))
        ELSE SubSeq(s, i, Least(at) - 1) \o repl
                 \o SubCallFrom(s, repl, CallMatchEnd(s, Least(at)))

\* a bug: re.sub(..., count=1), only the first match is rewritten
ReSubCallOnce(s, repl) ==
    LET at == { i \in 1..Len(s) : CallMatchEnd(s, i) > 0 }
    IN  IF at = {} THEN s
        ELSE SubSeq(s, 1, Least(at) - 1) \o repl
                 \o SubSeq(s, CallMatchEnd(s, Least(at)), Len(s))

\* re.sub(CallPattern, repl, s); repl holds no group reference
ReSubCall(s, repl) == SubCallFrom(s, repl, 1)

\* a bug: the comma of the pattern made optional,
\*   model: ['"]gemini-[^'",]+['"],?\s*
ModelParamMatchEndOptComma(s, i) ==
    LET q == i + Len(ModelKey)
        x == q + 1 + Len(GeminiPrefix)
        e == FirstIn(s, x, NotInName)
    IN  IF /\ OccursAt(ModelKey, s, i)
           /\ q <= Len(s) /\ s[q] \in Quotes
           /\ OccursAt(GeminiPrefix, s, q + 1)
           /\ e > x
           /\ e <= Len(s) /\ s[e] \in Quotes
        THEN IF e + 1 <= Len(s) /\ s[e + 1] = ","
             THEN FirstNotIn(s, e + 2, Whitespace)
             ELSE FirstNotIn(s, e + 1, Whitespace)
        ELSE 0

\* a bug: the pattern ends at the closing quote,
\*   model: ['"]gemini-[^'",]+['"]
ModelParamMatchEndAtQuote(s, i) ==
    LET q == i + Len(ModelKey)
        x == q + 1 + Len(GeminiPrefix)
        e == FirstIn(s, x, NotInName)
    IN  IF /\ OccursAt(ModelKey, s, i)
           /\ q <= Len(s) /\ s[q] \in Quotes
           /\ OccursAt(GeminiPrefix, s, q + 1)
           /\ e > x
           /\ e <= Len(s) /\ s[e] \in Quotes
        THEN e + 1
        ELSE 0

\* model: ['"]gemini-[^'",]+['"],\s*
\* [^'",]+ is greedy and stops at the first quote or comma, which must be a
\* quote followed by a comma: backtracking to a shorter name cannot help,
\* since no character of the name is a quote.
ModelParamMatchEnd(s, i) ==
    LET q == i + Len(ModelKey)
        x == q + 1 + Len(GeminiPrefix)
        e == FirstIn(s, x, NotInName)
    IN  IF /\ OccursAt(ModelKey, s, i)
           /\ q <= Len(s) /\ s[q] \in Quotes
           /\ OccursAt(GeminiPrefix, s, q + 1)
           /\ e > x
           /\ e <= Len(s) /\ s[e] \in Quotes
           /\ e + 1 <= Len(s) /\ s[e + 1] = ","
        THEN FirstNotIn(s, e + 2, Whitespace)
        ELSE 0

RECURSIVE StripFrom(_, _)
StripFrom(s, i) ==
    LET at == { j \in i..Len(s) : ModelParamMatchEnd(s, j) > 0 }
    IN  IF at = {} THEN SubSeq(s, i, Len(s))
        ELSE SubSeq(s, i, Least(at) - 1)
                 \o StripFrom(s, ModelParamMatchEnd(s, Least(at)))

\* re.sub(r'model: [\'"]gemini-[^\'",]+[\'"],\s*', '', s)
ReSubModelParam(s) == StripFrom(s, 1)

\* lines 24-28 applied to s in the order of the script
RECURSIVE ReplaceTypesFrom(_, _)
ReplaceTypesFrom(s, k) ==
    IF k > Len(TypeTable) THEN s
    ELSE ReplaceTypesFrom(StrReplace(s, TypeTable[k][1], TypeTable[k][2]), k + 1)

\* lines 10-21: the text that enters the Type replacements
Rewritten(s) == ReSubCall(ReSubCall(s, PrimaryRepl), VariantRepl)

\* lines 10-31: the text the script computes from the text it read
Transformed(s) == ReSubModelParam(ReplaceTypesFrom(Rewritten(s), 1))

----------------------------------------------------------------------------
(* The input documents. *)

RECURSIVE Concat(_, _, _)
Concat(F, p, k) ==
    IF k > Len(p) THEN << >> ELSE F[p[k]] \o Concat(F, p, k + 1)

\* every concatenation of at most n fragments of the tuple F
Docs(F, n) ==
    { Concat(F, p, 1) : p \in UNION { [1..k -> 1..Len(F)] : k \in 0..n } }

\* near misses and one of each target
MixedFrags ==
    << CallOpen, ModelArg, TypeString, ModelArgLast, TypeObjec, NoParen >>

\* the call, whole and in two halves, and its arguments
CallFrags == << CallOpen, ModelArg, OtherArgs \o CallClose, CallHead, CallTail >>

\* the Type tokens, and Type.OBJEC, which overlaps the token that follows it
EnumFrags ==
    << TypeObject, TypeString, TypeArray, TypeInteger, TypeBoolean,
       TypeObjec, Filler >>

\* model arguments with and without a comma, and their siblings
StripFrags ==
    << CallOpen, CallOpen \o ModelFragment, ModelFragment, ModelArgLast,
       Indent, OtherArgs, CallClose >>

Missing == [exists |-> FALSE, data |-> << >>]

File(d) == [exists |-> TRUE, data |-> d]

----------------------------------------------------------------------------
(* The script, one action per statement. *)

InitWith(F, n) ==
    /\ pc = "load"
    /\ disk \in { Missing } \cup { File(d) : d \in Docs(F, n) }
    /\ input = disk
    /\ content = << >>
    /\ out = << >>
    /\ err = "none"
    /\ written = << >>

Init == InitWith(MixedFrags, MaxFrags)

\* lines 6-7: open(..., 'r') and f.read() succeed
Load ==
    /\ pc = "load"
    /\ disk.exists
    /\ content' = disk.data
    /\ pc' = "sub1"
    /\ UNCHANGED << disk, input, out, err, written >>

\* a bug: the error of open(..., 'r') is swallowed and the run goes on with
\* an empty document
LoadFailSwallowed ==
    /\ pc = "load"
    /\ err' = "load"
    /\ content' = << >>
    /\ pc' = "sub1"
    /\ UNCHANGED << disk, input, out, written >>

\* line 6: open(..., 'r') raises (the file is missing, or it cannot be
\* read); nothing catches the exception and the script ends
LoadFail ==
    /\ pc = "load"
    /\ err' = "load"
    /\ pc' = "failed"
    /\ UNCHANGED << disk, content, input, out, written >>

\* lines 10-14
RewritePrimary ==
    /\ pc = "sub1"
    /\ content' = ReSubCall(content, PrimaryRepl)
    /\ pc' = "sub2"
    /\ UNCHANGED << disk, input, out, err, written >>

\* lines 17-21
RewriteVariant ==
    /\ pc = "sub2"
    /\ content' = ReSubCall(content, VariantRepl)
    /\ pc' = "object"
    /\ UNCHANGED << disk, input, out, err, written >>

\* line 24
ReplaceObject ==
    /\ pc = "object"
    /\ content' = StrReplace(content, TypeObject, QuotedObject)
    /\ pc' = "string"
    /\ UNCHANGED << disk, input, out, err, written >>

\* line 25
ReplaceString ==
    /\ pc = "string"
    /\ content' = StrReplace(content, TypeString, QuotedString)
    /\ pc' = "array"
    /\ UNCHANGED << disk, input, out, err, written >>

\* line 26
ReplaceArray ==
    /\ pc = "array"
    /\ content' = StrReplace(content, TypeArray, QuotedArray)
    /\ pc' = "integer"
    /\ UNCHANGED << disk, input, out, err, written >>

\* line 27
ReplaceInteger ==
    /\ pc = "integer"
    /\ content' = StrReplace(content, TypeInteger, QuotedInteger)
    /\ pc' = "boolean"
    /\ UNCHANGED << disk, input, out, err, written >>

\* a bug: the result of str.replace is not assigned
ReplaceBooleanDropped ==
    /\ pc = "boolean"
    /\ pc' = "strip"
    /\ UNCHANGED << content, disk, input, out, err, written >>

\* line 28
ReplaceBoolean ==
    /\ pc = "boolean"
    /\ content' = StrReplace(content, TypeBoolean, QuotedBoolean)
    /\ pc' = "strip"
    /\ UNCHANGED << disk, input, out, err, written >>

\* line 31
StripModelParam ==
    /\ pc = "strip"
    /\ content' = ReSubModelParam(content)
    /\ pc' = "open"
    /\ UNCHANGED << disk, input, out, err, written >>

\* line 34: open(..., 'w') truncates the file
OpenForWrite ==
    /\ pc = "open"
    /\ disk' = File(<< >>)
    /\ pc' = "write"
    /\ UNCHANGED << content, input, out, err, written >>

\* line 34: open(..., 'w') raises (no permission); the file is untouched
OpenForWriteFail ==
    /\ pc = "open"
    /\ err' = "open"
    /\ pc' = "failed"
    /\ UNCHANGED << disk, content, input, out, written >>

\* line 35 and the end of the with block: the text is written and the file
\* closed
Write ==
    /\ pc = "write"
    /\ disk' = File(content)
    /\ written' = Append(written, content)
    /\ pc' = "print"
    /\ UNCHANGED << content, input, out, err >>

\* line 35: the write raises (the disk is full) after some prefix of the
\* text has reached the file
WriteFail ==
    /\ pc = "write"
    /\ \E n \in 0..(Len(content) - 1) : disk' = File(SubSeq(content, 1, n))
    /\ err' = "write"
    /\ pc' = "failed"
    /\ UNCHANGED << content, input, out, written >>

\* line 37
Notify ==
    /\ pc = "print"
    /\ out' = Append(out, Message)
    /\ pc' = "done"
    /\ UNCHANGED << disk, content, input, err, written >>

\* the script is run again on the file it wrote
RunAgain ==
    /\ pc = "done"
    /\ Len(written) < MaxRuns
    /\ pc' = "load"
    /\ input' = disk
    /\ content' = << >>
    /\ out' = << >>
    /\ err' = "none"
    /\ UNCHANGED << disk, written >>

Next ==
    \/ Load
    \/ LoadFail
    \/ RewritePrimary
    \/ RewriteVariant
    \/ ReplaceObject
    \/ ReplaceString
    \/ ReplaceArray
    \/ ReplaceInteger
    \/ ReplaceBoolean
    \/ StripModelParam
    \/ OpenForWrite
    \/ OpenForWriteFail
    \/ Write
    \/ WriteFail
    \/ Notify
    \/ RunAgain

Spec == Init /\ [][Next]_vars

\* the same script on documents built around the generateContent call
InitCall == InitWith(CallFrags, MaxFrags)

SpecCall == InitCall /\ [][Next]_vars

\* the same script on documents built from the Type tokens
InitEnum == InitWith(EnumFrags, MaxEnumFrags)

SpecEnum == InitEnum /\ [][Next]_vars

\* the same script on documents built from model arguments
InitStrip == InitWith(StripFrags, MaxFrags)

SpecStrip == InitStrip /\ [][Next]_vars

----------------------------------------------------------------------------
(* Vocabulary of the properties. These definitions describe texts; they do *)
(* not take part in the script.                                            *)

\* a model: "gemini-..." pair starts at position i of s and its closing
\* quote is at position e: the pattern of line 31 up to the closing quote
ModelPairAt(s, i, e) ==
    LET x == i + Len(ModelKey) + 1 + Len(GeminiPrefix)
    IN  /\ OccursAt(ModelKey, s, i)
        /\ i + Len(ModelKey) <= Len(s)
        /\ s[i + Len(ModelKey)] \in Quotes
        /\ OccursAt(GeminiPrefix, s, i + Len(ModelKey) + 1)
        /\ e > x
        /\ e <= Len(s)
        /\ s[e] \in Quotes
        /\ \A j \in x..(e - 1) : s[j] \notin NotInName

\* s holds a model pair whose closing quote is followed by a comma
HasCommaTerminatedParam(s) ==
    \E i \in 1..Len(s) :
        /\ OccursAt(ModelKey, s, i)
        /\ \E e \in i..(Len(s) - 1) :
              /\ s[e + 1] = ","
              /\ ModelPairAt(s, i, e)

\* the opening of a call through the handle: model.generateContent({ 
HandleCallOpen ==
    << "m", "o", "d", "e", "l", ".", "g", "e", "n", "e", "r", "a", "t", "e",
       "C", "o", "n", "t", "e", "n", "t", "(", "{", " " >>

\* a call through the handle has a model pair as its first argument
ModelArgInHandleCall(s) ==
    \E i \in 1..Len(s) :
        /\ OccursAt(HandleCallOpen, s, i)
        /\ \E e \in i..Len(s) : ModelPairAt(s, i + Len(HandleCallOpen), e)

\* the occurrences << position, index in TypeTable >> of the tokens in s
TokenOccs(s) ==
    { o \in (1..Len(s)) \X (1..Len(TypeTable)) :
        OccursAt(TypeTable[o[2]][1], s, o[1]) }

\* two token occurrences of s share a character
Overlapping(s) ==
    \E a \in TokenOccs(s) : \E b \in TokenOccs(s) :
        /\ a[1] < b[1]
        /\ b[1] < a[1] + Len(TypeTable[a[2]][1])

\* by how much replacing the k-th token shortens the text
Shrink(k) == Len(TypeTable[k][1]) - Len(TypeTable[k][2])

RECURSIVE ShrinkSum(_)
ShrinkSum(O) ==
    IF O = {} THEN 0
    ELSE LET o == CHOOSE x \in O : TRUE
         IN  Shrink(o[2]) + ShrinkSum(O \ { o })

\* where position i of `before` lands once every occurrence that starts to
\* its left has been replaced
NewPos(before, i) ==
    i - ShrinkSum({ o \in TokenOccs(before) : o[1] < i })

\* `after` is `before` with each token occurrence replaced by its quoted
\* string and every other character kept
EveryOccurrenceReplaced(before, after) ==
    /\ Len(after) = Len(before) - ShrinkSum(TokenOccs(before))
    /\ \A o \in TokenOccs(before) :
          OccursAt(TypeTable[o[2]][2], after, NewPos(before, o[1]))
    /\ \A i \in 1..Len(before) :
          \/ \E o \in TokenOccs(before) :
                o[1] <= i /\ i < o[1] + Len(TypeTable[o[2]][1])
          \/ /\ NewPos(before, i) \in 1..Len(after)
             /\ after[NewPos(before, i)] = before[i]

\* the orders in which the five replacements can be applied
Orders ==
    { p \in [1..Len(TypeTable) -> 1..Len(TypeTable)] :
        \A a \in DOMAIN p : \A b \in DOMAIN p : p[a] = p[b] => a = b }

RECURSIVE ApplyInOrder(_, _, _)
ApplyInOrder(s, p, k) ==
    IF k > Len(p) THEN s
    ELSE ApplyInOrder(
             StrReplace(s, TypeTable[p[k]][1], TypeTable[p[k]][2]), p, k + 1)

\* s holds none of the patterns the script looks for
NoTargets(s) ==
    /\ Occurrences(CallPattern, s) = 0
    /\ TokenOccs(s) = {}
    /\ ~HasCommaTerminatedParam(s)

----------------------------------------------------------------------------
(* Properties. *)

\* C1: every occurrence of the call pattern in the text a run read is, in
\* the file the run wrote, a handle construction bound to
\* "gemini-2.0-flash-exp" followed on the next line by the call through the
\* handle: the Type replacements and the removal of model arguments leave
\* the inserted text whole.
HandleBoundAfterRun ==
    pc \in { "print", "done" } =>
        Occurrences(PrimaryRepl, disk.data)
            >= Occurrences(CallPattern, input.data)

\* a run that rewrote a call and removed its model argument has finished
HandleBoundWitness ==
    /\ pc = "done"
    /\ Occurrences(CallPattern, input.data) >= 1
    /\ Occurrences(ModelFragment, input.data) >= 1
    /\ Occurrences(ModelFragment, disk.data) = 0

SecondRunAddsNoHandle ==
    Len(written) >= 2 =>
        Occurrences(HandleStmt, written[2]) = Occurrences(HandleStmt, written[1])

SiblingArgsUntouched ==
    [][pc = "strip" =>
          \A i \in 1..Len(content) :
              OccursAt(ModelFragment, content, i) =>
                  LET before == SubSeq(content, 1, i - 1)
                      after  == SubSeq(content,
                                    FirstNotIn(content, i + Len(ModelFragment),
                                               Whitespace),
                                    Len(content))
                  IN  /\ content' = ReSubModelParam(before)
                                        \o ReSubModelParam(after)
                      /\ (~HasCommaTerminatedParam(before)
                            /\ ~HasCommaTerminatedParam(after))
                         => content' = before \o after]_vars

\* the removal has run on a call whose model argument was followed by
\* whitespace and other arguments, which are all that is left in the
\* parentheses
SiblingArgsWitness ==
    /\ pc = "open"
    /\ Occurrences(CallOpen \o ModelFragment \o Indent \o OtherArgs,
                   input.data) >= 1
    /\ Occurrences(HandleCallOpen \o OtherArgs, content) >= 1

\* C3, as the specification states it: every occurrence of a token in the
\* text is replaced by its quoted string, overlapping occurrences included,
\* and the rest of the text is kept.
EveryTokenReplaced ==
    pc = "strip" => EveryOccurrenceReplaced(Rewritten(input.data), content)

\* C3, amended: when no two token occurrences overlap, every occurrence is
\* replaced by its quoted string and the rest of the text is kept.
EveryDisjointTokenReplaced ==
    (pc = "strip" /\ ~Overlapping(Rewritten(input.data))) =>
        EveryOccurrenceReplaced(Rewritten(input.data), content)

\* the five replacements have run on a text with two token occurrences,
\* neither overlapping the other
DisjointTokensWitness ==
    /\ pc = "strip"
    /\ ~Overlapping(Rewritten(input.data))
    /\ Cardinality(TokenOccs(Rewritten(input.data))) >= 2
    /\ TokenOccs(content) = {}

\* C9, as the specification states it: the five replacements give the same
\* text in every order.
AnyOrderSameText ==
    pc = "strip" =>
        \A p \in Orders : ApplyInOrder(Rewritten(input.data), p, 1) = content

\* C9, amended: when no two token occurrences overlap, the five
\* replacements give the same text in every order.
AnyOrderSameTextIfDisjoint ==
    (pc = "strip" /\ ~Overlapping(Rewritten(input.data))) =>
        \A p \in Orders : ApplyInOrder(Rewritten(input.data), p, 1) = content

\* the five replacements have run on a text that held two different
\* tokens, neither overlapping the other
AnyOrderWitness ==
    /\ pc = "strip"
    /\ ~Overlapping(Rewritten(input.data))
    /\ Cardinality({ o[2] : o \in TokenOccs(Rewritten(input.data)) }) >= 2
    /\ Occurrences(QuotedBoolean, content) >= 1

\* C4: a document with none of the patterns goes through every step
\* unchanged and is written back as it was read.
NoTargetsNoChange ==
    (pc \notin { "load", "failed" } /\ NoTargets(input.data)) =>
        /\ content = input.data
        /\ pc \in { "print", "done" } => disk.data = input.data

\* a run has finished on a non-empty document that holds near misses of the
\* patterns and none of the patterns
NoTargetsWitness ==
    /\ pc = "done"
    /\ NoTargets(input.data)
    /\ Occurrences(ModelArgLast, input.data) >= 1
    /\ Occurrences(TypeObjec, input.data) >= 1
    /\ Occurrences(NoParen, input.data) >= 1

\* C6: when the load fails the run ends there with an I/O error: the file
\* is as it was, no text was read or transformed, nothing was printed and no
\* further statement runs.
LoadFailureHasNoEffect ==
    err = "load" =>
        /\ pc = "failed"
        /\ disk = input
        /\ content = << >>
        /\ out = << >>
        /\ ~ENABLED Next

\* the load has failed on a missing file
LoadFailureWitness ==
    /\ err = "load"
    /\ pc = "failed"
    /\ ~disk.exists

\* C8: at every moment of a run the file holds the whole original text or
\* the whole transformed text.
FileNeverHalfWritten ==
    \/ disk.data = input.data
    \/ disk.data = Transformed(input.data)

====
